---- MODULE Spec2Model ----
(***************************************************************************)
(* Network Device Backup Orchestrator (network-backup-orchestrator.py) and *)
(* its credential gate (credential_manager_gui.py) as a state machine.     *)
(*                                                                         *)
(* One run of main(): the gate window, the four device groups visited one  *)
(* device and one command at a time, the upload stage and the archive      *)
(* stage.  Every call into the CLI-session library, the transfer library   *)
(* or the filesystem is one step; a call that can raise has a failing      *)
(* variant that takes the handler's except branch (or leaves main).        *)
(***************************************************************************)
EXTENDS Integers, Sequences, FiniteSets, TLC

\* ------------------------------------------------------------------ bounds

\* Largest number of abnormal events in one run: a device-session call that
\* raises, an operator who closes the window or interrupts, an inventory that
\* lacks an entry, a file an earlier run of the day left behind.
MaxFaults == 1

\* ------------------------------------------------------- program constants

\* Display names are kept as their "-"-separated segments, so that
\* str.startswith("ISE-") is computed on the name and not looked up.
ShippedNames ==
    [h \in {"10.0.0.10", "10.0.0.11", "10.0.0.12", "10.0.0.13", "10.0.0.20",
            "10.0.0.21", "10.0.0.30", "10.0.0.31", "10.0.0.40", "10.0.0.50"} |->
        CASE h = "10.0.0.10" -> <<"CORE", "SW", "01">>
          [] h = "10.0.0.11" -> <<"CORE", "SW", "02">>
          [] h = "10.0.0.12" -> <<"DIST", "SW", "01">>
          [] h = "10.0.0.13" -> <<"DIST", "SW", "02">>
          [] h = "10.0.0.20" -> <<"ISE", "PRIMARY">>
          [] h = "10.0.0.21" -> <<"ISE", "SECONDARY">>
          [] h = "10.0.0.30" -> <<"ASA", "FW", "01">>
          [] h = "10.0.0.31" -> <<"ASA", "FW", "02">>
          [] h = "10.0.0.40" -> <<"EDGE", "RTR", "01">>
          [] OTHER           -> <<"BACKUP", "SERVER">>]

nexus_switches == <<"10.0.0.10", "10.0.0.12", "10.0.0.13">>
asr_routers == <<"10.0.0.40", "10.0.0.11">>
ise_appliances == <<"10.0.0.20", "10.0.0.21">>
asa_firewalls == <<"10.0.0.30", "10.0.0.31">>

cisco_commands == <<"terminal length 0", "show running-config", "exit">>
asa_commands == <<"terminal pager 0", "write memory">>
contexts == <<"SYSTEM", "MGMT", "DMZ", "BACKEND", "FRONTEND">>

backup_server_ip == "10.0.0.50"
backup_server_user == "backupuser"

\* The separator write_file puts after every capture: '\n' + '='*80 + '\n'.
Separator == "\n====...====\n"

\* What the operator types into each field of the gate window.
PersonalSecret == "personal-secret"
IseSecret == "ise-secret"
ServerSecret == "server-secret"

\* No context: the un-suffixed primary file of a device.
NoContext == ""
NoHost == "-"
NoOutput == <<>>

\* Run order of the four groups (main, lines 313-329).
HostOrder == asr_routers \o nexus_switches \o ise_appliances \o asa_firewalls

\* Addresses whose identity-map entry a misconfigured inventory may lack.
MissingCandidates == {"10.0.0.11", "10.0.0.31"}

\* ------------------------------------------------------------------- state

VARIABLES
    pc,                       \* position of the run in main()
    personal_psw_entry,       \* gate window: text of the three fields
    ise_psw_entry,
    backup_server_psw_entry,
    windowOpen,               \* gate window still shown (app.exec_() blocks)
    checksPassed,             \* validate_and_submit reached self.close()
    personal_password,        \* main's copies of the three secrets
    ise_password,
    linux_password,
    device_names,             \* identity map: address -> display name
    timestamp,                \* the run timestamp handed to main()
    grp, idx, cmd, ctx,       \* loop positions: group, host, command, context
    sessions,                 \* addresses with a session opened and not disconnected
    output,                   \* capture read and not yet written
    todayBackup,              \* todayBackup/: file name -> content
    archiveExists,            \* backupArchive/<date>_backup exists
    backupArchive,            \* backupArchive/<date>_backup/: file name -> content
    logs,                     \* logs/: names of the transfer logs
    files,                    \* archive_backup: the listing it iterates over
    moved,                    \* archive_backup: entries moved so far
    entries,                  \* upload_to_server: the scan it iterates over
    remote,                   \* remote host: base names put there, in put order
    listed,                   \* the remote listing was requested and printed
    beforeUpload,             \* todayBackup/ as it was when upload_to_server was called
    attempted,                \* addresses for which a session open was called
    reported,                 \* addresses whose error line was printed
    completed,                \* addresses whose handler ran to its end
    archiveCalls,             \* archive_backup calls that returned
    opens,                    \* the session opens of main so far: address and credentials
    lastCheck,                \* outcome of validate_and_submit for the fields as typed
    settled,                  \* time slept since the pending capture was read
    interrupted,              \* the operator has interrupted the run (Ctrl+C)
    faults                    \* abnormal events so far in this run

vars == <<pc, personal_psw_entry, ise_psw_entry, backup_server_psw_entry,
          windowOpen, checksPassed, personal_password, ise_password,
          linux_password, device_names, timestamp, grp, idx, cmd, ctx,
          sessions, output, todayBackup, archiveExists, backupArchive, logs,
          files, moved, entries, remote, listed, beforeUpload, attempted, reported, completed,
          archiveCalls, opens, lastCheck, settled, interrupted,
          faults>>

gateVars == <<personal_psw_entry, ise_psw_entry, backup_server_psw_entry,
              windowOpen, checksPassed>>
credVars == <<personal_password, ise_password, linux_password>>
loopVars == <<grp, idx, cmd, ctx>>
diskVars == <<todayBackup, archiveExists, backupArchive, logs>>
archVars == <<files, moved, archiveCalls>>
upVars == <<entries, remote, listed, beforeUpload>>
logVars == <<attempted, reported, completed>>

\* ----------------------------------------------------------------- helpers

Range(s) == {s[i] : i \in DOMAIN s}

EmptyDir == [f \in {} |-> <<>>]

\* timestamp.strftime(f"{hostname}_%Y%m%d_%H%M%S.cfg") and
\* timestamp.strftime(f"{hostname}_{context}_%Y%m%d_%H%M%S.cfg").
FileName(hostname, context, stamp) ==
    [hostname |-> hostname, context |-> context, stamp |-> stamp]

\* time.sleep(10): the settle delay, in seconds.
SettleDelay == 10

\* hostname.startswith("ISE-")
NeverStartsWithISE(hostname) == FALSE

StartsWithISE(hostname) == Len(hostname) >= 2 /\ hostname[1] = "ISE"

\* The text a device returns for a command (in a context, for a firewall).
DeviceOutput(host, context, command) == <<host, context, command>>

\* write_file: open(file_path, 'a'), write(content), write(separator).
WriteFileMissingSeparator(dir, filename, content) ==
    IF filename \in DOMAIN dir
    THEN [dir EXCEPT ![filename] = Append(@, content)]
    ELSE [f \in DOMAIN dir \cup {filename} |->
            IF f = filename THEN <<content>> ELSE dir[f]]

WriteFileTruncating(dir, filename, content) ==
    [f \in DOMAIN dir \cup {filename} |->
        IF f = filename THEN <<content, Separator>> ELSE dir[f]]

write_file(dir, filename, content) ==
    IF filename \in DOMAIN dir
    THEN [dir EXCEPT ![filename] = @ \o <<content, Separator>>]
    ELSE [f \in DOMAIN dir \cup {filename} |->
            IF f = filename THEN <<content, Separator>> ELSE dir[f]]

\* Directory enumeration order (os.listdir, os.scandir): the order is the
\* filesystem's; here older stamps first, then run order, then context order.
IndexOf(seq, x) == IF x \in Range(seq)
                   THEN CHOOSE i \in DOMAIN seq : seq[i] = x
                   ELSE 0
NameRank(hostname) ==
    IF \E i \in DOMAIN HostOrder : ShippedNames[HostOrder[i]] = hostname
    THEN CHOOSE i \in DOMAIN HostOrder : ShippedNames[HostOrder[i]] = hostname
    ELSE 0
Rank(f) == f.stamp * 1000 + NameRank(f.hostname) * 10 + IndexOf(contexts, f.context)

RECURSIVE SortByRank(_)
SortByRank(S) ==
    IF S = {} THEN <<>>
    ELSE LET first == CHOOSE f \in S : \A g \in S : Rank(f) <= Rank(g)
         IN  <<first>> \o SortByRank(S \ {first})

ListDir(dir) == SortByRank(DOMAIN dir)

\* -------------------------------------------------------------------- Init

\* A file a previous run of the day left in todayBackup (its upload failed),
\* and one a previous run of the day archived.
LeftoverFile == FileName(<<"EDGE", "RTR", "01">>, NoContext, 0)
ArchivedFile == FileName(<<"CORE", "SW", "01">>, NoContext, 0)
OldContent == <<"old capture", Separator>>

\* The identity map with one entry lost.
WithoutEntry(names, host) == [h \in DOMAIN names \ {host} |-> names[h]]

\* The state when app.exec_() starts: the folders exist, the window is shown
\* with three empty fields.
Init ==
    /\ pc = "gate"
    /\ personal_psw_entry = ""
    /\ ise_psw_entry = ""
    /\ backup_server_psw_entry = ""
    /\ windowOpen = TRUE
    /\ checksPassed = FALSE
    /\ personal_password = ""
    /\ ise_password = ""
    /\ linux_password = ""
    /\ \/ /\ device_names = ShippedNames
          /\ todayBackup = EmptyDir
          /\ faults = 0
       \/ /\ MaxFaults >= 1
          /\ faults = 1
          /\ \/ /\ \E h \in MissingCandidates :
                      device_names = WithoutEntry(ShippedNames, h)
                /\ todayBackup = EmptyDir
             \/ /\ device_names = ShippedNames
                /\ todayBackup = [f \in {LeftoverFile} |-> OldContent]
    /\ timestamp = 1
    /\ grp = 0 /\ idx = 0 /\ cmd = 0 /\ ctx = 0
    /\ sessions = {}
    /\ output = NoOutput
    /\ \/ archiveExists = FALSE /\ backupArchive = EmptyDir
       \/ archiveExists = TRUE /\ backupArchive = [f \in {ArchivedFile} |-> OldContent]
    /\ logs = {}
    /\ files = <<>>
    /\ moved = 0
    /\ archiveCalls = 0
    /\ entries = <<>>
    /\ remote = <<>>
    /\ listed = FALSE
    /\ beforeUpload = EmptyDir
    /\ attempted = {}
    /\ reported = {}
    /\ completed = {}
    /\ opens = <<>>
    /\ lastCheck = "none"
    /\ settled = 0
    /\ interrupted = FALSE

\* ----------------------------------------------------- the credential gate

runVars == <<device_names, timestamp, loopVars, sessions, output, diskVars,
             archVars, upVars, logVars>>

\* The operator types a secret into one of the three fields.
OperatorType ==
    /\ pc = "gate" /\ windowOpen
    /\ \/ personal_psw_entry = "" /\ personal_psw_entry' = PersonalSecret
          /\ UNCHANGED <<ise_psw_entry, backup_server_psw_entry>>
       \/ ise_psw_entry = "" /\ ise_psw_entry' = IseSecret
          /\ UNCHANGED <<personal_psw_entry, backup_server_psw_entry>>
       \/ backup_server_psw_entry = "" /\ backup_server_psw_entry' = ServerSecret
          /\ UNCHANGED <<personal_psw_entry, ise_psw_entry>>
    /\ lastCheck' = "none"
    /\ UNCHANGED <<pc, windowOpen, checksPassed, credVars, runVars, faults>>
    /\ UNCHANGED <<opens, settled, interrupted>>

\* MainWindow.clear_password_fields
clear_password_fields ==
    /\ personal_psw_entry' = ""
    /\ ise_psw_entry' = ""
    /\ backup_server_psw_entry' = ""

\* test_devices of validate_and_submit: the three test logins, with the
\* fields as typed.
test_devices ==
    {[host |-> "10.0.0.10", username |-> "personal_user",
      password |-> personal_psw_entry],
     [host |-> "10.0.0.20", username |-> "admin", password |-> ise_psw_entry],
     [host |-> "10.0.0.50", username |-> "backupuser",
      password |-> backup_server_psw_entry]}

\* What subprocess.run(['ping', ...], timeout=5) does: it returns code 0, it
\* returns another code, or it raises TimeoutExpired.
PingOutcomes == {"ok", "unreachable", "timeout"}

\* MainWindow.validate_and_submit, the handler of the button: the empty-field
\* check, the ping, the three test logins, then clear the fields or close.
\* TimeoutExpired is raised outside every try of the handler: it leaves the
\* handler before any field is cleared, and the binding then either returns
\* to the event loop or aborts the process.
validate_and_submit ==
    /\ pc = "gate" /\ windowOpen
    /\ \E ping \in PingOutcomes, auth_ok \in [1..3 -> BOOLEAN], aborts \in BOOLEAN :
         IF personal_psw_entry = "" \/ ise_psw_entry = "" \/ backup_server_psw_entry = ""
         THEN /\ lastCheck' = "empty"
              /\ UNCHANGED <<gateVars, pc>>
         ELSE IF ping = "timeout"
         THEN /\ lastCheck' = "ping_timeout"
              /\ pc' = IF aborts THEN "aborted" ELSE pc
              /\ windowOpen' = ~aborts
              /\ UNCHANGED <<personal_psw_entry, ise_psw_entry,
                             backup_server_psw_entry, checksPassed>>
         ELSE IF ping = "unreachable"
         THEN /\ lastCheck' = "ping_failed"
              /\ clear_password_fields
              /\ UNCHANGED <<windowOpen, checksPassed, pc>>
         ELSE IF \E i \in 1..3 : ~auth_ok[i]
         THEN /\ lastCheck' = "auth_failed"
              /\ clear_password_fields
              /\ UNCHANGED <<windowOpen, checksPassed, pc>>
         ELSE /\ lastCheck' = "passed"
              /\ windowOpen' = FALSE
              /\ checksPassed' = TRUE
              /\ UNCHANGED <<personal_psw_entry, ise_psw_entry,
                             backup_server_psw_entry, pc>>
    /\ UNCHANGED <<credVars, runVars, faults>>
    /\ UNCHANGED <<opens, settled, interrupted>>

\* The operator closes the window with its close button: no handler of the
\* program runs, app.exec_() returns.
OperatorClose ==
    /\ pc = "gate" /\ windowOpen
    /\ faults < MaxFaults
    /\ faults' = faults + 1
    /\ windowOpen' = FALSE
    /\ UNCHANGED <<pc, personal_psw_entry, ise_psw_entry, backup_server_psw_entry,
                   checksPassed, credVars, runVars>>
    /\ UNCHANGED <<opens, lastCheck, settled, interrupted>>

\* main, after app.exec_() returned: read the three fields, start the batch.
\* The window and what it last reported are gone.
main_read_credentials ==
    /\ pc = "gate" /\ ~windowOpen
    /\ personal_password' = personal_psw_entry
    /\ ise_password' = ise_psw_entry
    /\ linux_password' = backup_server_psw_entry
    /\ lastCheck' = "none"
    /\ pc' = "ch_lookup"
    /\ grp' = 1 /\ idx' = 1 /\ cmd' = 0 /\ ctx' = 0
    /\ UNCHANGED <<gateVars, device_names, timestamp, sessions, output, diskVars,
                   archVars, upVars, logVars, faults>>
    /\ UNCHANGED <<opens, settled, interrupted>>

\* ------------------------------------------------------- the device groups

\* A variant that gives the identity appliances the personal credential set.
CallAllPersonal(g) ==
    CASE g = 1 -> [hosts |-> asr_routers, username |-> "personal_user",
                   password |-> personal_password, commands |-> cisco_commands,
                   device_type |-> "cisco_ios"]
      [] g = 2 -> [hosts |-> nexus_switches, username |-> "personal_user",
                   password |-> personal_password, commands |-> cisco_commands,
                   device_type |-> "cisco_nxos"]
      [] OTHER -> [hosts |-> ise_appliances, username |-> "personal_user",
                   password |-> personal_password, commands |-> cisco_commands,
                   device_type |-> "cisco_nxos"]

\* The three connection_handler calls of main, in call order.
Call(g) ==
    CASE g = 1 -> [hosts |-> asr_routers, username |-> "personal_user",
                   password |-> personal_password, commands |-> cisco_commands,
                   device_type |-> "cisco_ios"]
      [] g = 2 -> [hosts |-> nexus_switches, username |-> "personal_user",
                   password |-> personal_password, commands |-> cisco_commands,
                   device_type |-> "cisco_nxos"]
      [] OTHER -> [hosts |-> ise_appliances, username |-> "admin",
                   password |-> ise_password, commands |-> cisco_commands,
                   device_type |-> "cisco_nxos"]

InHandler == pc \in {"ch_lookup", "ch_open", "ch_prompt", "ch_send", "ch_sleep",
                     "ch_write", "ch_disconnect"}
InAsaHandler == pc \in {"asa_lookup", "asa_open", "asa_prompt", "asa_sys_send",
                        "asa_sys_write", "asa_changeto", "asa_write_memory",
                        "asa_show", "asa_ctx_write", "asa_disconnect"}

\* The address the run is at.
Host == IF InHandler THEN Call(grp).hosts[idx]
        ELSE IF InAsaHandler THEN asa_firewalls[idx]
        ELSE NoHost

\* The address the loops of main stand at, also after the run has ended.
HostAt == IF grp \in 1..3 THEN Call(grp).hosts[idx]
          ELSE IF grp = 4 THEN asa_firewalls[idx]
          ELSE NoHost

\* for host in hosts, and main's next call once the list is exhausted: where
\* the run goes when connection_handler is through with the current host.
NextHost ==
    IF idx < Len(Call(grp).hosts)
    THEN [pc |-> "ch_lookup", grp |-> grp, idx |-> idx + 1]
    ELSE IF grp < 3
    THEN [pc |-> "ch_lookup", grp |-> grp + 1, idx |-> 1]
    ELSE [pc |-> "asa_lookup", grp |-> 4, idx |-> 1]

\* The except branch of connection_handler: it ends the loop body of one
\* host. A variant that lets the exception leave the function ends the run.
HandlerExceptAborts == [pc |-> "exit1", grp |-> grp, idx |-> idx]

\* A variant that tries the failed host once more.
HandlerExceptRetries == [pc |-> "ch_lookup", grp |-> grp, idx |-> idx]

HandlerExcept == NextHost

GoTo(target) ==
    /\ pc' = target.pc
    /\ grp' = target.grp
    /\ idx' = target.idx

\* The credentials a session open presents to an address.
Login(host, username, password) ==
    [host |-> host, username |-> username, password |-> password]

\* hostname = device_names[host]; filename = ...   (outside the try: a
\* missing address raises KeyError out of connection_handler and main)
ch_lookup ==
    /\ pc = "ch_lookup"
    /\ pc' = IF Host \in DOMAIN device_names THEN "ch_open" ELSE "exit1"
    /\ UNCHANGED <<gateVars, credVars, device_names, timestamp, loopVars, sessions,
                   output, diskVars, archVars, upVars, logVars, faults>>
    /\ UNCHANGED <<opens, lastCheck, settled, interrupted>>

\* conn = Netmiko(host=..., timeout=90)
ch_open ==
    /\ pc = "ch_open"
    /\ attempted' = attempted \cup {Host}
    /\ sessions' = sessions \cup {Host}
    /\ opens' = Append(opens, Login(Host, Call(grp).username, Call(grp).password))
    /\ pc' = "ch_prompt"
    /\ UNCHANGED <<gateVars, credVars, device_names, timestamp, loopVars, output,
                   diskVars, archVars, upVars, reported, completed, faults>>
    /\ UNCHANGED <<lastCheck, settled, interrupted>>

\* Netmiko(...) raises: except Exception, print the error, next host.
ch_open_fails ==
    /\ pc = "ch_open"
    /\ faults < MaxFaults
    /\ faults' = faults + 1
    /\ attempted' = attempted \cup {Host}
    /\ reported' = reported \cup {Host}
    /\ opens' = Append(opens, Login(Host, Call(grp).username, Call(grp).password))
    /\ GoTo(HandlerExcept)
    /\ cmd' = 0
    /\ UNCHANGED <<gateVars, credVars, device_names, timestamp, ctx, sessions, output,
                   diskVars, archVars, upVars, completed>>
    /\ UNCHANGED <<lastCheck, settled, interrupted>>

\* print(f"Logged into {conn.find_prompt()}")
ch_prompt ==
    /\ pc = "ch_prompt"
    /\ cmd' = 1
    /\ pc' = IF Len(Call(grp).commands) = 0 THEN "ch_disconnect" ELSE "ch_send"
    /\ UNCHANGED <<gateVars, credVars, device_names, timestamp, grp, idx, ctx, sessions,
                   output, diskVars, archVars, upVars, logVars, faults>>
    /\ UNCHANGED <<opens, lastCheck, settled, interrupted>>

\* output = conn.send_command_timing(command)
ch_send ==
    /\ pc = "ch_send"
    /\ output' = <<DeviceOutput(Host, NoContext, Call(grp).commands[cmd])>>
    /\ settled' = 0
    /\ pc' = IF StartsWithISE(device_names[Host]) THEN "ch_sleep" ELSE "ch_write"
    /\ UNCHANGED <<gateVars, credVars, device_names, timestamp, loopVars, sessions,
                   diskVars, archVars, upVars, logVars, faults>>
    /\ UNCHANGED <<opens, lastCheck, interrupted>>

\* time.sleep(10)
ch_sleep ==
    /\ pc = "ch_sleep"
    /\ settled' = settled + SettleDelay
    /\ pc' = "ch_write"
    /\ UNCHANGED <<gateVars, credVars, device_names, timestamp, loopVars, sessions,
                   output, diskVars, archVars, upVars, logVars, faults>>
    /\ UNCHANGED <<opens, lastCheck, interrupted>>

\* write_file(output, filename, path), then the next command or the end of
\* the loop.
ch_write ==
    /\ pc = "ch_write"
    /\ todayBackup' = write_file(todayBackup,
                                 FileName(device_names[Host], NoContext, timestamp),
                                 output[1])
    /\ output' = NoOutput
    /\ settled' = 0
    /\ IF cmd < Len(Call(grp).commands)
       THEN cmd' = cmd + 1 /\ pc' = "ch_send"
       ELSE cmd' = cmd /\ pc' = "ch_disconnect"
    /\ UNCHANGED <<gateVars, credVars, device_names, timestamp, grp, idx, ctx, sessions,
                   archiveExists, backupArchive, logs, archVars, upVars, logVars,
                   faults>>
    /\ UNCHANGED <<opens, lastCheck, interrupted>>

\* conn.disconnect(); print(f"Backup completed: {hostname}")
ch_disconnect ==
    /\ pc = "ch_disconnect"
    /\ sessions' = sessions \ {Host}
    /\ completed' = completed \cup {Host}
    /\ GoTo(NextHost)
    /\ cmd' = 0
    /\ UNCHANGED <<gateVars, credVars, device_names, timestamp, ctx, output, diskVars,
                   archVars, upVars, attempted, reported, faults>>
    /\ UNCHANGED <<opens, lastCheck, settled, interrupted>>

\* find_prompt, send_command_timing or disconnect raises: except Exception,
\* print the error, next host. The handler does not disconnect the session.
ch_session_fails ==
    /\ pc \in {"ch_prompt", "ch_send", "ch_disconnect"}
    /\ faults < MaxFaults
    /\ faults' = faults + 1
    /\ reported' = reported \cup {Host}
    /\ output' = NoOutput
    /\ sessions' = sessions
    /\ GoTo(HandlerExcept)
    /\ cmd' = 0
    /\ UNCHANGED <<gateVars, credVars, device_names, timestamp, ctx, diskVars,
                   archVars, upVars, attempted, completed>>
    /\ UNCHANGED <<opens, lastCheck, settled, interrupted>>

\* ------------------------------------------------------------ the firewalls

\* for asa in asa_firewalls, then the upload: where the run goes when
\* asa_connection_handler returns.
NextFirewall ==
    IF idx < Len(asa_firewalls)
    THEN [pc |-> "asa_lookup", grp |-> grp, idx |-> idx + 1]
    ELSE [pc |-> "up_log", grp |-> grp, idx |-> idx]

\* The commands issued for one context, in order; only the last is captured.
ContextCommandsSaveLast(context) ==
    <<<<"changeto context", context>>, "show running-config", "write memory">>

context_commands(context) ==
    <<<<"changeto context", context>>, "write memory", "show running-config">>

\* The except branch of asa_connection_handler: the handler returns.
AsaExceptRetries == [pc |-> "asa_lookup", grp |-> grp, idx |-> idx]

\* A variant that lets the exception leave the handler and main.
AsaExceptAborts == [pc |-> "exit1", grp |-> grp, idx |-> idx]

AsaExcept == NextFirewall

\* The file of one context: f"{hostname}_{context}_%Y%m%d_%H%M%S.cfg".
ContextFileNameUnsuffixed(hostname, context, stamp) ==
    FileName(hostname, NoContext, stamp)

ContextFileName(hostname, context, stamp) == FileName(hostname, context, stamp)

\* The asa_connection_handler call of main: the credentials it is given.
AsaCall == [username |-> "personal_user", password |-> personal_password]

\* contexts = [...]; hostname = device_names[host]   (outside the try)
asa_lookup ==
    /\ pc = "asa_lookup"
    /\ pc' = IF Host \in DOMAIN device_names THEN "asa_open" ELSE "exit1"
    /\ UNCHANGED <<gateVars, credVars, device_names, timestamp, loopVars, sessions,
                   output, diskVars, archVars, upVars, logVars, faults>>
    /\ UNCHANGED <<opens, lastCheck, settled, interrupted>>

\* conn = Netmiko(host=..., device_type="cisco_asa")
asa_open ==
    /\ pc = "asa_open"
    /\ attempted' = attempted \cup {Host}
    /\ sessions' = sessions \cup {Host}
    /\ opens' = Append(opens, Login(Host, AsaCall.username, AsaCall.password))
    /\ pc' = "asa_prompt"
    /\ UNCHANGED <<gateVars, credVars, device_names, timestamp, loopVars, output,
                   diskVars, archVars, upVars, reported, completed, faults>>
    /\ UNCHANGED <<lastCheck, settled, interrupted>>

\* Netmiko(...) raises: except Exception, print the error, return.
asa_open_fails ==
    /\ pc = "asa_open"
    /\ faults < MaxFaults
    /\ faults' = faults + 1
    /\ attempted' = attempted \cup {Host}
    /\ reported' = reported \cup {Host}
    /\ opens' = Append(opens, Login(Host, AsaCall.username, AsaCall.password))
    /\ GoTo(AsaExcept)
    /\ cmd' = 0 /\ ctx' = 0
    /\ UNCHANGED <<gateVars, credVars, device_names, timestamp, sessions, output,
                   diskVars, archVars, upVars, completed>>
    /\ UNCHANGED <<lastCheck, settled, interrupted>>

\* print(f"Logged into {conn.find_prompt()}"); filename = ...
asa_prompt ==
    /\ pc = "asa_prompt"
    /\ cmd' = 1
    /\ ctx' = IF Len(asa_commands) = 0 THEN 1 ELSE 0
    /\ pc' = IF Len(asa_commands) > 0 THEN "asa_sys_send"
             ELSE IF Len(contexts) > 0 THEN "asa_changeto"
             ELSE "asa_disconnect"
    /\ UNCHANGED <<gateVars, credVars, device_names, timestamp, grp, idx, sessions,
                   output, diskVars, archVars, upVars, logVars, faults>>
    /\ UNCHANGED <<opens, lastCheck, settled, interrupted>>

\* output = conn.send_command(command)       (system sequence)
asa_sys_send ==
    /\ pc = "asa_sys_send"
    /\ output' = <<DeviceOutput(Host, NoContext, asa_commands[cmd])>>
    /\ pc' = "asa_sys_write"
    /\ UNCHANGED <<gateVars, credVars, device_names, timestamp, loopVars, sessions,
                   diskVars, archVars, upVars, logVars, faults>>
    /\ UNCHANGED <<opens, lastCheck, settled, interrupted>>

\* write_file(output, filename, path)        (system sequence)
asa_sys_write ==
    /\ pc = "asa_sys_write"
    /\ todayBackup' = write_file(todayBackup,
                                 FileName(device_names[Host], NoContext, timestamp),
                                 output[1])
    /\ output' = NoOutput
    /\ IF cmd < Len(asa_commands)
       THEN cmd' = cmd + 1 /\ ctx' = ctx /\ pc' = "asa_sys_send"
       ELSE /\ cmd' = cmd
            /\ ctx' = 1
            /\ pc' = IF Len(contexts) > 0 THEN "asa_changeto" ELSE "asa_disconnect"
    /\ UNCHANGED <<gateVars, credVars, device_names, timestamp, grp, idx, sessions,
                   archiveExists, backupArchive, logs, archVars, upVars, logVars,
                   faults>>
    /\ UNCHANGED <<opens, lastCheck, settled, interrupted>>

\* conn.send_command(f"changeto context {context}")
asa_changeto ==
    /\ pc = "asa_changeto"
    /\ pc' = "asa_write_memory"
    /\ UNCHANGED <<gateVars, credVars, device_names, timestamp, loopVars, sessions,
                   output, diskVars, archVars, upVars, logVars, faults>>
    /\ UNCHANGED <<opens, lastCheck, settled, interrupted>>

\* conn.send_command("write memory")          (result dropped)
asa_write_memory ==
    /\ pc = "asa_write_memory"
    /\ pc' = "asa_show"
    /\ UNCHANGED <<gateVars, credVars, device_names, timestamp, loopVars, sessions,
                   output, diskVars, archVars, upVars, logVars, faults>>
    /\ UNCHANGED <<opens, lastCheck, settled, interrupted>>

\* output = conn.send_command_timing("show running-config")
asa_show ==
    /\ pc = "asa_show"
    /\ output' = <<DeviceOutput(Host, contexts[ctx], context_commands(contexts[ctx])[3])>>
    /\ pc' = "asa_ctx_write"
    /\ UNCHANGED <<gateVars, credVars, device_names, timestamp, loopVars, sessions,
                   diskVars, archVars, upVars, logVars, faults>>
    /\ UNCHANGED <<opens, lastCheck, settled, interrupted>>

\* write_file(output, context_filename, path); print; next context
asa_ctx_write ==
    /\ pc = "asa_ctx_write"
    /\ todayBackup' = write_file(todayBackup,
                                 ContextFileName(device_names[Host], contexts[ctx],
                                                 timestamp),
                                 output[1])
    /\ output' = NoOutput
    /\ IF ctx < Len(contexts)
       THEN ctx' = ctx + 1 /\ pc' = "asa_changeto"
       ELSE ctx' = ctx /\ pc' = "asa_disconnect"
    /\ UNCHANGED <<gateVars, credVars, device_names, timestamp, grp, idx, cmd, sessions,
                   archiveExists, backupArchive, logs, archVars, upVars, logVars,
                   faults>>
    /\ UNCHANGED <<opens, lastCheck, settled, interrupted>>

\* conn.disconnect()
asa_disconnect ==
    /\ pc = "asa_disconnect"
    /\ sessions' = sessions \ {Host}
    /\ completed' = completed \cup {Host}
    /\ GoTo(NextFirewall)
    /\ cmd' = 0 /\ ctx' = 0
    /\ UNCHANGED <<gateVars, credVars, device_names, timestamp, output, diskVars,
                   archVars, upVars, attempted, reported, faults>>
    /\ UNCHANGED <<opens, lastCheck, settled, interrupted>>

\* find_prompt, send_command, send_command_timing or disconnect raises:
\* except Exception, print the error, return; the context loop is left and
\* the session is not closed by the handler.
asa_session_fails ==
    /\ pc \in {"asa_prompt", "asa_sys_send", "asa_changeto", "asa_write_memory",
               "asa_show", "asa_disconnect"}
    /\ faults < MaxFaults
    /\ faults' = faults + 1
    /\ reported' = reported \cup {Host}
    /\ output' = NoOutput
    /\ sessions' = sessions
    /\ GoTo(AsaExcept)
    /\ cmd' = 0 /\ ctx' = 0
    /\ UNCHANGED <<gateVars, credVars, device_names, timestamp, diskVars,
                   archVars, upVars, attempted, completed>>
    /\ UNCHANGED <<opens, lastCheck, settled, interrupted>>

\* ------------------------------------------------------------------- upload

\* log_name = now.strftime("%Y%m%d_%H%M%S_paramiko_SFTP.log")
LogName(stamp) == [log |-> "paramiko_SFTP", stamp |-> stamp]

\* The regular files of todayBackup in scan order (os.scandir, is_file()).
ScanFiles(dir) == ListDir(dir)

\* An exception that leaves upload_to_server leaves main as well (no try in
\* either): __main__ prints "Unexpected error" and exits with code 1.
\* A variant in which main goes on with the archive stage.
UploadRaisesIsolated == "ar_mkdir"

UploadRaises == "exit1"

\* The upload_to_server call of main: the address and credentials it is given.
UploadCall == Login(backup_server_ip, backup_server_user, linux_password)

\* paramiko.util.log_to_file(log_path)
up_log ==
    /\ pc = "up_log"
    /\ logs' = logs \cup {LogName(timestamp)}
    /\ beforeUpload' = todayBackup
    /\ pc' = "up_connect"
    /\ UNCHANGED <<gateVars, credVars, device_names, timestamp, loopVars, sessions,
                   output, todayBackup, archiveExists, backupArchive, archVars,
                   entries, remote, listed, logVars, faults>>
    /\ UNCHANGED <<opens, lastCheck, settled, interrupted>>

\* ssh_client.connect(hostname=server_ip, username=..., password=...)
up_connect ==
    /\ pc = "up_connect"
    /\ opens' = Append(opens, UploadCall)
    /\ pc' = "up_sftp"
    /\ UNCHANGED <<gateVars, credVars, device_names, timestamp, loopVars, sessions,
                   output, diskVars, archVars, upVars, logVars, faults>>
    /\ UNCHANGED <<lastCheck, settled, interrupted>>

\* sftp = ssh_client.open_sftp(); os.scandir(backup_dir)
up_sftp ==
    /\ pc = "up_sftp"
    /\ entries' = ScanFiles(todayBackup)
    /\ pc' = IF DOMAIN todayBackup = {} THEN "up_ls" ELSE "up_put"
    /\ UNCHANGED <<gateVars, credVars, device_names, timestamp, loopVars, sessions,
                   output, diskVars, archVars, remote, listed, beforeUpload, logVars,
                   faults>>
    /\ UNCHANGED <<opens, lastCheck, settled, interrupted>>

\* sftp.put(local_path, remote_path) for the next entry of the scan
up_put ==
    /\ pc = "up_put"
    /\ remote' = Append(remote, entries[Len(remote) + 1])
    /\ pc' = IF Len(remote) + 1 = Len(entries) THEN "up_ls" ELSE "up_put"
    /\ UNCHANGED <<gateVars, credVars, device_names, timestamp, loopVars, sessions,
                   output, diskVars, archVars, entries, listed, beforeUpload, logVars,
                   faults>>
    /\ UNCHANGED <<opens, lastCheck, settled, interrupted>>

\* ssh_client.exec_command("ls -l"); print(stdout.read().decode())
up_ls ==
    /\ pc = "up_ls"
    /\ listed' = TRUE
    /\ pc' = "up_close"
    /\ UNCHANGED <<gateVars, credVars, device_names, timestamp, loopVars, sessions,
                   output, diskVars, archVars, entries, remote, beforeUpload, logVars,
                   faults>>
    /\ UNCHANGED <<opens, lastCheck, settled, interrupted>>

\* sftp.close(); ssh_client.close(); back in main: the archive stage
up_close ==
    /\ pc = "up_close"
    /\ pc' = "ar_mkdir"
    /\ UNCHANGED <<gateVars, credVars, device_names, timestamp, loopVars, sessions,
                   output, diskVars, archVars, upVars, logVars, faults>>
    /\ UNCHANGED <<opens, lastCheck, settled, interrupted>>

\* connect, open_sftp, put or exec_command raises.
up_fails ==
    /\ pc \in {"up_connect", "up_sftp", "up_put", "up_ls"}
    /\ opens' = IF pc = "up_connect" THEN Append(opens, UploadCall) ELSE opens
    /\ pc' = UploadRaises
    /\ UNCHANGED <<gateVars, credVars, device_names, timestamp, loopVars, sessions,
                   output, diskVars, archVars, upVars, logVars, faults>>
    /\ UNCHANGED <<lastCheck, settled, interrupted>>

\* ------------------------------------------------------------------ archive

\* try: os.makedirs(archive_path) / except FileExistsError: pass
\* The result is whether archive_backup goes on.
MakedirsUncaught(exists) == ~exists

makedirs_or_pass(exists) == TRUE

\* The directory after os.makedirs (or after the caught FileExistsError): an
\* existing directory keeps its entries.
ArchiveDirAfterMakedirs(exists, dir) == IF exists THEN dir ELSE EmptyDir

\* shutil.move(src, dst) of one entry between two directories: dst takes the
\* content of src (an existing dst file is replaced), src is gone.
MoveIn(dst, src, name) ==
    [f \in DOMAIN dst \cup {name} |-> IF f = name THEN src[name] ELSE dst[f]]
MoveOut(src, name) == [f \in DOMAIN src \ {name} |-> src[f]]

ar_mkdir ==
    /\ pc = "ar_mkdir"
    /\ IF makedirs_or_pass(archiveExists)
       THEN /\ archiveExists' = TRUE
            /\ backupArchive' = ArchiveDirAfterMakedirs(archiveExists, backupArchive)
            /\ pc' = "ar_list"
       ELSE /\ pc' = "exit1"
            /\ UNCHANGED <<archiveExists, backupArchive>>
    /\ UNCHANGED <<gateVars, credVars, device_names, timestamp, loopVars, sessions,
                   output, todayBackup, logs, archVars, upVars, logVars, faults>>
    /\ UNCHANGED <<opens, lastCheck, settled, interrupted>>

\* files = os.listdir(today_backup)
ar_list ==
    /\ pc = "ar_list"
    /\ files' = ListDir(todayBackup)
    /\ moved' = 0
    /\ pc' = IF DOMAIN todayBackup = {} THEN "ar_print" ELSE "ar_move"
    /\ UNCHANGED <<gateVars, credVars, device_names, timestamp, loopVars, sessions,
                   output, diskVars, archiveCalls, upVars, logVars, faults>>
    /\ UNCHANGED <<opens, lastCheck, settled, interrupted>>

\* shutil.move(src, dst) for the next entry of the listing
ar_move ==
    /\ pc = "ar_move"
    /\ backupArchive' = MoveIn(backupArchive, todayBackup, files[moved + 1])
    /\ todayBackup' = MoveOut(todayBackup, files[moved + 1])
    /\ moved' = moved + 1
    /\ pc' = IF moved + 1 = Len(files) THEN "ar_print" ELSE "ar_move"
    /\ UNCHANGED <<gateVars, credVars, device_names, timestamp, loopVars, sessions,
                   output, archiveExists, logs, files, archiveCalls, upVars, logVars,
                   faults>>
    /\ UNCHANGED <<opens, lastCheck, settled, interrupted>>

\* print(f"Archived {len(files)} backup files to {dir_name}"); archive_backup
\* returns; main prints "Backup process completed successfully!" and returns.
ar_print ==
    /\ pc = "ar_print"
    /\ archiveCalls' = archiveCalls + 1
    /\ pc' = "done"
    /\ UNCHANGED <<gateVars, credVars, device_names, timestamp, loopVars, sessions,
                   output, diskVars, files, moved, upVars, logVars, faults>>
    /\ UNCHANGED <<opens, lastCheck, settled, interrupted>>

\* ---------------------------------------------------- the operator interrupt

\* The positions of main between the gate and its return.
RunPcs == {"ch_lookup", "ch_open", "ch_prompt", "ch_send", "ch_sleep", "ch_write",
           "ch_disconnect", "asa_lookup", "asa_open", "asa_prompt", "asa_sys_send",
           "asa_sys_write", "asa_changeto", "asa_write_memory", "asa_show",
           "asa_ctx_write", "asa_disconnect", "up_log", "up_connect", "up_sftp",
           "up_put", "up_ls", "up_close", "ar_mkdir", "ar_list", "ar_move",
           "ar_print"}

\* Where KeyboardInterrupt lands. It is no Exception: the except branches of
\* the two handlers do not catch it, main has no handler, and __main__ prints
\* "Program interrupted by user" and exits with code 0. A variant in which the
\* handlers catch it (a bare except) goes on with the next device.
KeyboardInterruptCaughtByHandler ==
    IF InHandler THEN HandlerExcept
    ELSE IF InAsaHandler THEN AsaExcept
    ELSE [pc |-> "exit0", grp |-> grp, idx |-> idx]

KeyboardInterruptLands == [pc |-> "exit0", grp |-> grp, idx |-> idx]

\* The operator presses Ctrl+C while main is between two of its steps.
Interrupt ==
    /\ pc \in RunPcs
    /\ faults < MaxFaults
    /\ faults' = faults + 1
    /\ interrupted' = TRUE
    /\ GoTo(KeyboardInterruptLands)
    /\ UNCHANGED <<gateVars, credVars, device_names, timestamp, cmd, ctx, sessions,
                   output, diskVars, archVars, upVars, logVars>>
    /\ UNCHANGED <<opens, lastCheck, settled>>

\* ------------------------------------------------------------ specification

Gate == OperatorType \/ validate_and_submit \/ OperatorClose \/ main_read_credentials

Batch ==
    \/ ch_lookup \/ ch_open \/ ch_open_fails \/ ch_prompt \/ ch_send \/ ch_sleep
    \/ ch_write \/ ch_disconnect \/ ch_session_fails
    \/ asa_lookup \/ asa_open \/ asa_open_fails \/ asa_prompt \/ asa_sys_send
    \/ asa_sys_write \/ asa_changeto \/ asa_write_memory \/ asa_show
    \/ asa_ctx_write \/ asa_disconnect \/ asa_session_fails

Upload == up_log \/ up_connect \/ up_sftp \/ up_put \/ up_ls \/ up_close \/ up_fails

Archive == ar_mkdir \/ ar_list \/ ar_move \/ ar_print

Next == Gate \/ Batch \/ Upload \/ Archive \/ Interrupt

Spec == Init /\ [][Next]_vars

\* ------------------------------------------- archive_backup called repeatedly

\* Largest number of archive_backup calls on one day.
MaxArchiveCalls == 2

ArchiverNames == {FileName(ShippedNames[h], NoContext, 1) :
                    h \in {"10.0.0.40", "10.0.0.11", "10.0.0.20"}}
ArchiverOldNames == {ArchivedFile, FileName(ShippedNames["10.0.0.40"], NoContext, 1)}
NewContent == <<"new capture", Separator>>

\* archive_backup is entered with any todayBackup and any archive of the day.
InitArchiver ==
    /\ pc = "ar_mkdir"
    /\ personal_psw_entry = PersonalSecret
    /\ ise_psw_entry = IseSecret
    /\ backup_server_psw_entry = ServerSecret
    /\ windowOpen = FALSE
    /\ checksPassed = TRUE
    /\ personal_password = PersonalSecret
    /\ ise_password = IseSecret
    /\ linux_password = ServerSecret
    /\ device_names = ShippedNames
    /\ faults = 0
    /\ timestamp = 1
    /\ grp = 0 /\ idx = 0 /\ cmd = 0 /\ ctx = 0
    /\ sessions = {}
    /\ output = NoOutput
    /\ \E S \in SUBSET ArchiverNames : todayBackup = [f \in S |-> NewContent]
    /\ \/ archiveExists = FALSE /\ backupArchive = EmptyDir
       \/ /\ archiveExists = TRUE
          /\ \E S \in SUBSET ArchiverOldNames : backupArchive = [f \in S |-> OldContent]
    /\ logs = {}
    /\ files = <<>>
    /\ moved = 0
    /\ archiveCalls = 0
    /\ entries = <<>>
    /\ remote = <<>>
    /\ listed = FALSE
    /\ beforeUpload = EmptyDir
    /\ attempted = {}
    /\ reported = {}
    /\ completed = {}
    /\ opens = <<>>
    /\ lastCheck = "passed"
    /\ settled = 0
    /\ interrupted = FALSE

\* archive_backup(path, now) is called again on the same day.
ar_again ==
    /\ pc = "done"
    /\ archiveCalls < MaxArchiveCalls
    /\ pc' = "ar_mkdir"
    /\ UNCHANGED <<gateVars, credVars, device_names, timestamp, loopVars, sessions,
                   output, diskVars, archVars, upVars, logVars, faults>>
    /\ UNCHANGED <<opens, lastCheck, settled, interrupted>>

NextArchiver == ar_mkdir \/ ar_list \/ ar_move \/ ar_print \/ ar_again

SpecArchiver == InitArchiver /\ [][NextArchiver]_vars

\* =================================================================== claims

AllHosts == Range(HostOrder)
GenericHosts == Range(asr_routers) \cup Range(nexus_switches) \cup Range(ise_appliances)
Firewalls == Range(asa_firewalls)

UploadPcs == {"up_log", "up_connect", "up_sftp", "up_put", "up_ls", "up_close"}
ArchivePcs == {"ar_mkdir", "ar_list", "ar_move", "ar_print"}

\* upload_to_server was called in this run.
UploadCalled == LogName(timestamp) \in logs

\* The batch stage is over: the run is in a later stage, or ended in one.
BatchOver == pc \in UploadPcs \cup ArchivePcs \cup {"done"}
             \/ (pc = "exit1" /\ UploadCalled)

\* The files of todayBackup written in this run.
RunFiles == {f \in DOMAIN todayBackup : f.stamp = timestamp}

\* C1: failure isolation in the batch. Whatever sessions failed, once the
\* batch stage is over a session open was attempted for every device of every
\* group, and the batch stage is never left early except at an address that
\* the identity map lacks (never because a session failed).
C1_FailureIsolation ==
    /\ BatchOver => attempted = AllHosts
    /\ (pc = "exit1" /\ ~UploadCalled) => HostAt \notin DOMAIN device_names

\* C1 witness: a router failed and the last firewall was still backed up.
C1_Witness ==
    /\ pc = "up_log"
    /\ "10.0.0.40" \in reported
    /\ "10.0.0.31" \in completed

\* C2: if the upload stage fails, the archive stage is still executed in the
\* same run (and the captures stay in place): a run that ended after a failed
\* upload has run archive_backup.
C2_UploadFailureIsolated ==
    (checksPassed /\ pc = "exit1" /\ UploadCalled) =>
        /\ archiveCalls >= 1
        /\ \A f \in DOMAIN beforeUpload :
             \/ f \in DOMAIN todayBackup /\ todayBackup[f] = beforeUpload[f]
             \/ f \in DOMAIN backupArchive /\ backupArchive[f] = beforeUpload[f]

\* C3: no session is opened and no backup file is written unless the gate
\* delivered three non-empty secrets whose pre-flight checks passed.
C3_PreconditionGate ==
    (attempted # {} \/ RunFiles # {}) =>
        /\ checksPassed
        /\ personal_password # ""
        /\ ise_password # ""
        /\ linux_password # ""

\* The entries archive_backup has moved so far.
Placed == {files[i] : i \in 1..moved}

\* C4: upload followed by archive. Once the run is through both stages,
\* whatever the upload outcome, todayBackup is empty and the files placed in
\* the dated archive directory are exactly those todayBackup held before the
\* upload was attempted; the upload stage leaves todayBackup and the archive
\* as they were.
C4_UploadThenArchive ==
    /\ (checksPassed /\ pc \in {"done", "exit1"} /\ UploadCalled) =>
          /\ todayBackup = EmptyDir
          /\ Placed = DOMAIN beforeUpload
    /\ (pc \in UploadPcs \ {"up_log"}) => todayBackup = beforeUpload

\* C5: archive_backup called again on the same day with an empty todayBackup
\* raises no error, moves nothing and leaves the archive directory exactly as
\* the first call left it.
C5_ArchiveIdempotent ==
    [][(archiveCalls >= 1 /\ todayBackup = EmptyDir) =>
          /\ backupArchive' = backupArchive
          /\ archiveExists' = archiveExists
          /\ todayBackup' = EmptyDir
          /\ pc' \notin {"exit1", "ar_move"}]_vars

\* C5 witness: the second call has returned and the archive holds the old
\* entries and the three the first call moved.
C5_Witness ==
    /\ pc = "done"
    /\ archiveCalls = 2
    /\ Cardinality(DOMAIN backupArchive) = 4

IsPrefix(s, t) == Len(s) <= Len(t) /\ SubSeq(t, 1, Len(s)) = s

ContentOf(dir, f) == IF f \in DOMAIN dir THEN dir[f] ELSE <<>>

\* o1 <sep> o2 <sep> ... ok <sep>: the first k captures of a command sequence.
RECURSIVE Blocks(_, _, _, _)
Blocks(host, context, commands, k) ==
    IF k <= 0 THEN <<>>
    ELSE Blocks(host, context, commands, k - 1)
         \o <<DeviceOutput(host, context, commands[k]), Separator>>

PrimaryFile(host) == FileName(device_names[host], NoContext, timestamp)

\* The captures written for the current device when a call of its session
\* raises at the current position.
WrittenSoFar ==
    CASE pc = "ch_send"        -> Blocks(Host, NoContext, Call(grp).commands, cmd - 1)
      [] pc = "ch_disconnect"  -> Blocks(Host, NoContext, Call(grp).commands,
                                         Len(Call(grp).commands))
      [] pc = "asa_sys_send"   -> Blocks(Host, NoContext, asa_commands, cmd - 1)
      [] pc \in {"asa_changeto", "asa_write_memory", "asa_show", "asa_disconnect"}
                               -> Blocks(Host, NoContext, asa_commands, Len(asa_commands))
      [] OTHER                 -> <<>>

\* C6: no rollback, append-only writes. In the batch stage every file keeps
\* its content as a prefix of its content after any step and no file goes
\* away; a step changes at most the file of the current device (or context);
\* and when a session call raises for a device at its k-th command, its file
\* holds exactly the captures of commands 1..k-1, each with its separator.
C6_AppendOnly ==
    [][(InHandler \/ InAsaHandler) =>
          /\ \A f \in DOMAIN todayBackup :
                /\ f \in DOMAIN todayBackup'
                /\ IsPrefix(todayBackup[f], todayBackup'[f])
          /\ \A f \in DOMAIN todayBackup' :
                ContentOf(todayBackup, f) # todayBackup'[f] =>
                    f.hostname = device_names[Host] /\ f.stamp = timestamp
          /\ reported' # reported =>
                ContentOf(todayBackup', PrimaryFile(Host)) = WrittenSoFar]_vars

\* C6 witness: the first router failed at its third command, its file holds
\* two blocks, and the rest of the batch has run.
C6_Witness ==
    /\ pc = "up_log"
    /\ "10.0.0.40" \in reported
    /\ ContentOf(todayBackup, PrimaryFile("10.0.0.40"))
         = Blocks("10.0.0.40", NoContext, cisco_commands, 2)

\* The files of todayBackup that carry the display name of a device.
FilesOf(host) == {f \in DOMAIN todayBackup : f.hostname = device_names[host]}

\* C7: capture content of a generic-CLI device. Starting from an empty
\* todayBackup, a device whose session succeeded has exactly one file, whose
\* content is o1<sep>o2<sep>...on<sep> in command order; and whenever command
\* k is about to be submitted (or its capture is not yet written) the file
\* holds the blocks of commands 1..k-1.
C7_CaptureContent ==
    (LeftoverFile \notin DOMAIN todayBackup) =>
        /\ (InHandler \/ InAsaHandler \/ pc \in UploadPcs) =>
              \A h \in completed \cap GenericHosts :
                 /\ FilesOf(h) = {PrimaryFile(h)}
                 /\ todayBackup[PrimaryFile(h)]
                      = Blocks(h, NoContext, cisco_commands, Len(cisco_commands))
        /\ pc \in {"ch_send", "ch_sleep", "ch_write"} =>
              ContentOf(todayBackup, PrimaryFile(Host))
                 = Blocks(Host, NoContext, Call(grp).commands, cmd - 1)

\* C7 witness: both identity appliances are backed up, from an empty
\* todayBackup, and the run is at the firewalls.
C7_Witness ==
    /\ pc = "asa_lookup"
    /\ LeftoverFile \notin DOMAIN todayBackup
    /\ {"10.0.0.40", "10.0.0.21"} \subseteq completed

ContextFile(host, context) == ContextFileName(device_names[host], context, timestamp)

\* The number of separator-terminated blocks of a file content.
NumBlocks(content) == Cardinality({i \in DOMAIN content : content[i] = Separator})

\* The files of this run that carry the display name of a device.
RunFilesOf(host) == {f \in RunFiles : f.hostname = device_names[host]}

\* Every device of every group was backed up and todayBackup is as the batch
\* left it.
AllSucceeded == pc \in UploadPcs /\ completed = AllHosts

\* No two sessions write to the same file: no address is visited twice and no
\* two addresses share a display name.
DistinctTargets ==
    /\ \A i, j \in DOMAIN HostOrder : HostOrder[i] = HostOrder[j] => i = j
    /\ \A g, h \in AllHosts : device_names[g] = device_names[h] => g = h

\* C8 as it is stated: in a run where every device succeeds there is exactly
\* one file per generic device and one per (firewall, context) pair, all with
\* the run timestamp, and each file holds one block per command issued for
\* that device or context.
C8_OneBlockPerIssuedCommand ==
    AllSucceeded =>
        /\ \A f \in RunFiles : f.stamp = timestamp
        /\ \A h \in GenericHosts :
              /\ RunFilesOf(h) = {PrimaryFile(h)}
              /\ NumBlocks(todayBackup[PrimaryFile(h)]) = Len(cisco_commands)
        /\ \A h \in Firewalls : \A i \in DOMAIN contexts :
              /\ ContextFile(h, contexts[i]) \in RunFiles
              /\ NumBlocks(todayBackup[ContextFile(h, contexts[i])])
                   = Len(context_commands(contexts[i]))
        /\ DistinctTargets

\* C8 amended: in a run where every device succeeds the files of the run are
\* exactly one per generic device, one un-suffixed primary file per firewall
\* and one per (firewall, context) pair, all with the run timestamp; a generic
\* or primary file holds one block per command of its sequence, in order, and
\* a context file holds exactly one block, the configuration dump (the switch
\* and the save are issued but not captured); no two sessions write to the
\* same file.
C8_OneFilePerDevice ==
    AllSucceeded =>
        /\ RunFiles = {PrimaryFile(h) : h \in AllHosts}
                      \cup {ContextFile(h, contexts[i]) :
                              h \in Firewalls, i \in DOMAIN contexts}
        /\ Cardinality(RunFiles)
             = Len(HostOrder) + Len(asa_firewalls) * Len(contexts)
        /\ \A f \in RunFiles : f.stamp = timestamp
        /\ \A h \in GenericHosts :
              todayBackup[PrimaryFile(h)]
                 = Blocks(h, NoContext, cisco_commands, Len(cisco_commands))
        /\ \A h \in Firewalls :
              /\ todayBackup[PrimaryFile(h)]
                   = Blocks(h, NoContext, asa_commands, Len(asa_commands))
              /\ \A i \in DOMAIN contexts :
                    /\ todayBackup[ContextFile(h, contexts[i])]
                         = <<DeviceOutput(h, contexts[i], "show running-config"),
                             Separator>>
                    /\ NumBlocks(todayBackup[ContextFile(h, contexts[i])]) = 1
        /\ DistinctTargets

\* C8 witness: every device was backed up and the upload is about to start.
C8_Witness == pc = "up_log" /\ completed = AllHosts /\ reported = {}

\* C9: multi-context partial failure. When the switch, the save or the dump
\* raises for the i-th context of a firewall, the files of that firewall are
\* exactly the primary file (the whole system sequence) and the files of
\* contexts 1..i-1 (one dump each), the device is reported failed and the
\* handler returns: the run goes on with the next firewall or the upload.
\* The files of a firewall reported failed do not change in the rest of the
\* batch stage.
C9_PartialContextFailure ==
    [][/\ (pc \in {"asa_changeto", "asa_write_memory", "asa_show"}
           /\ reported' # reported) =>
             /\ {f \in DOMAIN todayBackup' :
                    f.hostname = device_names[Host] /\ f.stamp = timestamp}
                  = {PrimaryFile(Host)}
                    \cup {ContextFile(Host, contexts[j]) : j \in 1..(ctx - 1)}
             /\ todayBackup'[PrimaryFile(Host)]
                  = Blocks(Host, NoContext, asa_commands, Len(asa_commands))
             /\ \A j \in 1..(ctx - 1) :
                   todayBackup'[ContextFile(Host, contexts[j])]
                     = <<DeviceOutput(Host, contexts[j], "show running-config"),
                         Separator>>
             /\ Host \in reported'
             /\ \/ pc' = "up_log" /\ idx = Len(asa_firewalls)
                \/ pc' = "asa_lookup" /\ idx' = idx + 1
       /\ InAsaHandler =>
             \A h \in (reported \cap Firewalls) \ {Host} :
                \A f \in DOMAIN todayBackup \cup DOMAIN todayBackup' :
                   f.hostname = device_names[h] =>
                      /\ f \in DOMAIN todayBackup /\ f \in DOMAIN todayBackup'
                      /\ todayBackup'[f] = todayBackup[f]]_vars

\* C9 witness: the first firewall failed in its third context (DMZ); its
\* files are the primary file and those of SYSTEM and MGMT; the second
\* firewall was backed up.
C9_Witness ==
    /\ pc = "up_log"
    /\ "10.0.0.30" \in reported
    /\ "10.0.0.31" \in completed
    /\ RunFilesOf("10.0.0.30")
         = {PrimaryFile("10.0.0.30"), ContextFile("10.0.0.30", "SYSTEM"),
            ContextFile("10.0.0.30", "MGMT")}

\* C10: inventory fail-fast. When a device group references an address that
\* the identity map lacks, no device session is opened and no backup file is
\* written in the run.
C10_InventoryFailFast ==
    (\E h \in AllHosts : h \notin DOMAIN device_names) =>
        attempted = {} /\ RunFiles = {}

\* The addresses of the session opens of main so far, in the order they
\* were made.
OpenHosts == [i \in DOMAIN opens |-> opens[i].host]

\* C11: group order and exactly-once attempts. The session opens of a run
\* are made in the order routers, switches, identity appliances, firewalls
\* (list order within a group), none twice, also after a failure; the upload
\* stage is entered only when every device of the four groups has had its
\* one attempt, and the archive stage only when the upload is through.
C11_GroupOrderOnce ==
    LET hosts == OpenHosts
        order == HostOrder \o <<backup_server_ip>>
    IN  /\ IsPrefix(hosts, order)
        /\ Cardinality(Range(hosts)) = Len(hosts)
        /\ reported \subseteq Range(hosts)
        /\ BatchOver => Len(hosts) >= Len(HostOrder)
        /\ pc \in ArchivePcs \cup {"done"} =>
              /\ hosts = order
              /\ listed /\ remote = entries

\* C11 witness: the run has reached the archive stage although the second
\* router failed at its session open; it was attempted once.
C11_Witness ==
    /\ pc = "ar_mkdir"
    /\ "10.0.0.11" \in reported \ completed
    /\ OpenHosts = HostOrder \o <<backup_server_ip>>

\* The positions at which the process has ended: main returned after the
\* completion message, "Unexpected error" and code 1, "Program interrupted by user" and
\* code 0, or the gate aborted the process.
TerminalPcs == {"done", "exit1", "exit0", "aborted"}

FieldsEmpty ==
    personal_psw_entry = "" /\ ise_psw_entry = "" /\ backup_server_psw_entry = ""

\* The outcomes of validate_and_submit in which the probe or a test login
\* failed.
FailedChecks == {"ping_failed", "ping_timeout", "auth_failed"}

\* C13: the credential gate. The handler closes the window only with three
\* non-empty fields, a successful probe and three successful test logins;
\* whenever the handler ends with a failed probe or a failed test login, the
\* three fields are empty and the window is still open.
C13_GateClearsOnFailure ==
    [][/\ (checksPassed' /\ ~checksPassed) =>
             /\ lastCheck' = "passed"
             /\ ~windowOpen'
             /\ personal_psw_entry' # "" /\ ise_psw_entry' # ""
             /\ backup_server_psw_entry' # ""
       /\ (windowOpen /\ ~windowOpen' /\ pc' = "gate" /\ faults' = faults) =>
             checksPassed'
       /\ (lastCheck' \in FailedChecks /\ lastCheck' # lastCheck) =>
             FieldsEmpty' /\ windowOpen']_vars

\* C14: no two device sessions are open at the same time. At most one
\* session is open, and none is open when the session of the next device is
\* about to be opened, also after a failure in the middle of a command
\* sequence.
C14_OneSessionAtATime ==
    /\ Cardinality(sessions) <= 1
    /\ pc \in {"ch_lookup", "ch_open", "asa_lookup", "asa_open"} => sessions = {}

\* The positions of asa_connection_handler inside the context loop.
ContextPcs == {"asa_changeto", "asa_write_memory", "asa_show", "asa_ctx_write"}

\* The one block a context file holds: the configuration dump of the context.
DumpBlock(host, context) ==
    <<DeviceOutput(host, context, "show running-config"), Separator>>

\* The files of the firewall in session, with the context loop at context k:
\* the primary file holds the whole system sequence, the files of the
\* contexts before k hold one block each, those of k and after do not exist.
ContextLoopAt(k) ==
    /\ ContentOf(todayBackup, PrimaryFile(Host))
          = Blocks(Host, NoContext, asa_commands, Len(asa_commands))
    /\ \A j \in DOMAIN contexts :
          IF j < k
          THEN ContentOf(todayBackup, ContextFile(Host, contexts[j]))
                 = DumpBlock(Host, contexts[j])
          ELSE ContextFile(Host, contexts[j]) \notin DOMAIN todayBackup

C15_SessionState ==
    /\ pc \in {"asa_sys_send", "asa_sys_write"} =>
          /\ ctx = 0
          /\ \A j \in DOMAIN contexts :
                ContextFile(Host, contexts[j]) \notin DOMAIN todayBackup
          /\ ContentOf(todayBackup, PrimaryFile(Host))
                = Blocks(Host, NoContext, asa_commands, cmd - 1)
    /\ pc \in ContextPcs =>
          /\ ctx \in DOMAIN contexts
          /\ ContextLoopAt(ctx)
          /\ output = IF pc = "asa_ctx_write"
                      THEN <<DeviceOutput(Host, contexts[ctx], "show running-config")>>
                      ELSE NoOutput
    /\ pc = "asa_disconnect" => ContextLoopAt(Len(contexts) + 1)

\* C15: multi-context session ordering. In a firewall session the system
\* sequence is written whole to the primary file before the first context
\* switch; the contexts are visited in list order, each as switch, save (its
\* result dropped), dump, write to the context file; the disconnect follows
\* the write of the last context, and every context file holds one block.
\* (A session the operator interrupts stops where it is.)
C15_ContextOrdering ==
    [][/\ C15_SessionState'
       /\ (pc' = "asa_changeto" /\ pc # pc') =>
             \/ pc = "asa_sys_write" /\ cmd = Len(asa_commands) /\ ctx' = 1
             \/ pc = "asa_ctx_write" /\ ctx' = ctx + 1
       /\ (pc = "asa_changeto" /\ reported' = reported /\ ~interrupted') =>
             pc' = "asa_write_memory" /\ ctx' = ctx /\ todayBackup' = todayBackup
       /\ (pc = "asa_write_memory" /\ reported' = reported /\ ~interrupted') =>
             pc' = "asa_show" /\ ctx' = ctx /\ todayBackup' = todayBackup
       /\ (pc = "asa_show" /\ reported' = reported /\ ~interrupted') =>
             pc' = "asa_ctx_write" /\ ctx' = ctx /\ todayBackup' = todayBackup
       /\ (pc = "asa_ctx_write" /\ ~interrupted') =>
             /\ ContentOf(todayBackup', ContextFile(Host, contexts[ctx]))
                   = DumpBlock(Host, contexts[ctx])
             /\ pc' = IF ctx = Len(contexts) THEN "asa_disconnect" ELSE "asa_changeto"
       /\ (pc' = "asa_disconnect" /\ pc # pc') =>
             pc = "asa_ctx_write" /\ ctx = Len(contexts)
       /\ (completed' # completed /\ InAsaHandler) =>
             pc = "asa_disconnect" /\ sessions' = sessions \ {Host}]_vars

\* C15 witness: the first firewall is about to be disconnected with its
\* primary file and its five context files written, one block each.
C15_Witness ==
    /\ pc = "asa_disconnect"
    /\ Host = "10.0.0.30"
    /\ ContextLoopAt(Len(contexts) + 1)
    /\ \A j \in DOMAIN contexts :
          NumBlocks(todayBackup[ContextFile(Host, contexts[j])]) = 1

\* The display name of the device in session carries the marker "ISE-".
MarkedISE == Head(device_names[Host]) = "ISE"

\* C16: settle delay for identity appliances. When a capture is about to be
\* written, 10 units have been slept since its timed read if the display
\* name of the device starts with "ISE-", and none otherwise; the sleep
\* happens once per command, between the read and the write, and at no
\* other position of the run.
C16_SettleDelay ==
    /\ pc = "ch_write" => settled = (IF MarkedISE THEN 10 ELSE 0)
    /\ pc = "ch_sleep" => MarkedISE /\ settled = 0 /\ output # NoOutput
    /\ pc \notin {"ch_write", "exit0"} => settled = 0

\* C16 witness: the second capture of the first identity appliance is about
\* to be written, 10 units after its read.
C16_Witness ==
    /\ pc = "ch_write"
    /\ Host = "10.0.0.20"
    /\ cmd = 2
    /\ settled = 10

\* C17: operator interrupt. The step in which the interrupt is raised ends
\* the run with "Program interrupted by user" and code 0, prints no device error line,
\* opens no session and leaves every file of todayBackup, the remote host and
\* the archive as it was; after it the run takes no step at all (no further
\* device, no later stage).
C17_InterruptEndsRun ==
    [][/\ (interrupted' /\ ~interrupted) =>
             /\ pc' = "exit0"
             /\ reported' = reported
             /\ opens' = opens
             /\ todayBackup' = todayBackup
             /\ remote' = remote
             /\ backupArchive' = backupArchive
       /\ interrupted => UNCHANGED vars]_vars

\* C17 witness: the run was interrupted in the session of the second switch,
\* between its second read and write; the files of the devices before it and
\* its own first capture are in todayBackup.
C17_Witness ==
    /\ interrupted
    /\ pc = "exit0"
    /\ HostAt = "10.0.0.12"
    /\ cmd = 2
    /\ output # NoOutput
    /\ ContentOf(todayBackup, PrimaryFile("10.0.0.12"))
          = Blocks("10.0.0.12", NoContext, cisco_commands, 1)
    /\ ContentOf(todayBackup, PrimaryFile("10.0.0.10"))
          = Blocks("10.0.0.10", NoContext, cisco_commands, Len(cisco_commands))

\* The device classes of the credential sets.
PersonalClass == Range(asr_routers) \cup Range(nexus_switches) \cup Firewalls
IdentityClass == Range(ise_appliances)

\* A login presents the credential set of the class its address belongs to,
\* given the three secrets of the sets.
RoutedLogin(l, personal, ise, server) ==
    /\ l.host \in PersonalClass \cup IdentityClass \cup {backup_server_ip}
    /\ l.host \in PersonalClass =>
          l.username = "personal_user" /\ l.password = personal
    /\ l.host \in IdentityClass =>
          l.username = "admin" /\ l.password = ise
    /\ l.host = backup_server_ip =>
          l.username = "backupuser" /\ l.password = server
    /\ l.password = PersonalSecret => l.host \in PersonalClass
    /\ l.password = IseSecret => l.host \in IdentityClass
    /\ l.password = ServerSecret => l.host = backup_server_ip

\* The content of a file is made of device captures and separators only.
IssuedCommands == Range(cisco_commands) \cup Range(asa_commands)
                  \cup {"show running-config"}
OnlyCaptures(content) ==
    \A i \in DOMAIN content :
       IF i % 2 = 1
       THEN /\ Len(content[i]) = 3
            /\ content[i][1] \in AllHosts
            /\ content[i][2] \in {NoContext} \cup Range(contexts)
            /\ content[i][3] \in IssuedCommands
       ELSE content[i] = Separator

\* The files written in this run, where they are now.
WrittenHere(dir) == {f \in DOMAIN dir : f.stamp = timestamp}

\* C18: credential routing. Every session main opens to a router, switch or
\* firewall presents the personal set, every session to an identity appliance
\* the administrative set (user "admin", the ISE secret), and the server
\* secret is presented to the backup server alone (each session open is
\* looked at in the state it is made in, and all of them again when a stage
\* or the run is over); the same holds for the test logins the gate makes
\* with the fields as typed; when the batch is over or the run has ended, the
\* files written by the run hold device captures and separators and nothing
\* else, so no credential.
C18_CredentialRouting ==
    /\ opens # <<>> =>
          RoutedLogin(opens[Len(opens)], personal_password, ise_password,
                      linux_password)
    /\ pc = "gate" =>
          \A l \in test_devices :
             RoutedLogin(l, personal_psw_entry, ise_psw_entry, backup_server_psw_entry)
    /\ pc \in {"up_log", "up_sftp", "done", "exit0", "exit1"} =>
          /\ \A i \in DOMAIN opens :
                RoutedLogin(opens[i], personal_password, ise_password, linux_password)
          /\ \A f \in WrittenHere(todayBackup) : OnlyCaptures(todayBackup[f])
          /\ \A f \in WrittenHere(backupArchive) : OnlyCaptures(backupArchive[f])

\* C18 witness: a validated run has opened the upload session after sessions
\* to all four groups, with the three secrets typed at the gate.
C18_Witness ==
    /\ pc = "up_sftp"
    /\ checksPassed
    /\ Len(opens) = Len(HostOrder) + 1
    /\ opens[Len(opens)].password = ServerSecret
    /\ \E i \in DOMAIN opens : opens[i].password = IseSecret
    /\ \E i \in DOMAIN opens : opens[i].password = PersonalSecret
    /\ WrittenHere(todayBackup) # {}

\* The names put on the remote host are the first names of the scan, in scan
\* order, and no name occurs twice in the scan: each was put exactly once.
PutOnce ==
    /\ IsPrefix(remote, entries)
    /\ Cardinality(Range(entries)) = Len(entries)

\* C19: no regular file leaves todayBackup without having been uploaded.
\* Every file the archive stage has moved out of todayBackup was put on the
\* remote host exactly once, under its own name, by the upload stage of the
\* run; the remote listing is requested only when every file of the scan has
\* been put, and the archive stage is entered only after the listing.
C19_ArchivedOnlyIfUploaded ==
    /\ PutOnce
    /\ Placed \subseteq Range(remote)
    /\ listed => remote = entries /\ Range(entries) = DOMAIN beforeUpload
    /\ pc \in ArchivePcs \cup {"done"} =>
          /\ listed
          /\ DOMAIN todayBackup \cup Placed = Range(remote)

\* C19 witness: the run is through both stages; several files were put on
\* the remote host and then moved to the archive.
C19_Witness ==
    /\ pc = "done"
    /\ listed
    /\ Cardinality(Placed) >= 2
    /\ Placed = Range(remote)
    /\ todayBackup = EmptyDir

====
